---- MODULE Spec2Model ----
(***************************************************************************)
(* Model of the byte_test order book: the background update process        *)
(* (order_book_process), the Binance connection that reconciles a REST     *)
(* snapshot with the buffered websocket deltas (BinanceConnection::stream),*)
(* and the reader (OrderBook::top_bid_ask).                                *)
(*                                                                         *)
(* Prices and quantities are f32 in the source.  The model uses integers:  *)
(* a price is its value in tenths (9.5 is 95), a quantity is its value.    *)
(* Only finite prices are modelled (no NaN).  A raw level is a pair of     *)
(* strings in the source; the model keeps, for each raw level, whether     *)
(* both strings parse as f32 and the numbers they parse to.                *)
(*                                                                         *)
(* The levels of a buffered Delta are not read before the delta is         *)
(* converted (binance.rs:99), so the model draws them at that point; the   *)
(* buffer keeps the update ids, which are all the reconciliation reads.    *)
(*                                                                         *)
(* last_updated + 1 (binance.rs:78) is computed in u64.  It is evaluated   *)
(* only for a front delta with last_update > last_updated, so              *)
(* last_updated < 2^64 - 1 there and the sum cannot wrap.                  *)
(*                                                                         *)
(* One step of order_book_process is one await of the stream together with *)
(* the match arm that handles the item, under the write lock; a reader     *)
(* runs between two such steps.  SpecLock takes the same process at the    *)
(* grain of the lock operations.                                           *)
(***************************************************************************)
EXTENDS Integers, Sequences, FiniteSets, TLC

\* ------------------------------------------------------------------ bounds
\* deltas received from the websocket in one session
MaxDeltas == 2
\* update ids run over 1..MaxId
MaxId == 3

\* what the exchange sends when it is not bound to a script: prices in tenths,
\* quantities (0 removes the level), update ids
Prices == {1, 2}
Quantities == {0, 1}
Ids == 1..MaxId

\* Option<T>
None == <<>>
Some(x) == <<x>>

VARIABLES
    pc,            \* position of order_book_process: "connect", "buffering", "streaming"
    result,        \* what connection.stream() returned last ("pending" while it runs)
    delta_buffer,  \* the VecDeque of buffered deltas, then the buffer_stream
    last_updated,  \* Option: snapshot.last_update_id of this session
    orders,        \* the orders of the message being streamed that are still to be yielded
    bids, asks,    \* Book: the two BTreeSets, in iteration order
    script,        \* inputs the exchange is bound to supply first, in the order they are read
    arrived,       \* history: deltas received in this session
    chunk,         \* history: the message whose orders are being streamed, NoChunk between messages
    applied,       \* history: orders of chunk already applied to the book
    failed,        \* history: "error" since an error item of this session, "ended" since the stream
                   \* ended, "no" once a snapshot level has been applied after that
    live_bids, live_asks,  \* history: prices whose latest applied quantity is non-zero, since the last clear
    in_flight,     \* the snapshot future of the running select! has been polled and is pending
    requests,      \* history: snapshot requests issued by the select loop that is running
    dropped,       \* history: buffered deltas of this session popped as predating the snapshot
    writer,        \* the update task holds the write guard of the RwLock
    readers,       \* for each reader, "idle" or "holding" a read guard
    malformed      \* history: Some(n) when the last item the exchange supplied is a message with a
                   \* level that does not parse, n levels being converted before it; None otherwise

vars == <<pc, result, delta_buffer, last_updated, orders, bids, asks,
          script, arrived, chunk, applied, failed, live_bids, live_asks,
          in_flight, requests, dropped, malformed, writer, readers>>

\* the callers of OrderBook::top_bid_ask: main and one more holder of the book
Readers == {"main", "other"}

\* the state of the RwLock
locks == <<writer, readers>>

\* ---------------------------------------------------- connection/mod.rs
\* OrderDetails { price, quantity }
OrderDetails(p, q) == [price |-> p, quantity |-> q]

\* cmp, had Ord been derived over both fields
cmp_quantity(a, b) ==
    IF a.price < b.price THEN "Less"
    ELSE IF a.price > b.price THEN "Greater"
    ELSE IF a.quantity < b.quantity THEN "Less"
    ELSE IF a.quantity > b.quantity THEN "Greater"
    ELSE "Equal"

\* impl Ord for OrderDetails
cmp(a, b) ==
    IF a.price < b.price THEN "Less"
    ELSE IF a.price > b.price THEN "Greater"
    ELSE "Equal"

\* the order of the bids, had Reverse been left out
cmp_forward(a, b) == cmp(a, b)

\* Ord for std::cmp::Reverse<OrderDetails>, the element type of Book.bids
cmp_reverse(a, b) == cmp(b, a)

\* --------------------------------------------------- std BTreeSet, by cmp
\* The search of a key in a set held in iteration order: the first element
\* the key is not Greater than.  The result is <<found, index>>.
RECURSIVE search(_, _, _, _)
search(set, key, rev, i) ==
    IF i > Len(set) THEN <<FALSE, i>>
    ELSE LET c == IF rev THEN cmp_reverse(key, set[i]) ELSE cmp(key, set[i])
         IN  IF c = "Greater" THEN search(set, key, rev, i + 1)
             ELSE <<c = "Equal", i>>

\* BTreeSet::insert: an equal element already present is kept, not replaced
insert(set, key, rev) ==
    LET s == search(set, key, rev, 1)
    IN  IF s[1] THEN set
        ELSE SubSeq(set, 1, s[2] - 1) \o <<key>> \o SubSeq(set, s[2], Len(set))

\* a remove that takes out the element the search stops at, equal or not
remove_nearest(set, key, rev) ==
    LET s == search(set, key, rev, 1)
    IN  SubSeq(set, 1, s[2] - 1) \o SubSeq(set, s[2] + 1, Len(set))

\* BTreeSet::remove
remove(set, key, rev) ==
    LET s == search(set, key, rev, 1)
    IN  IF s[1] THEN SubSeq(set, 1, s[2] - 1) \o SubSeq(set, s[2] + 1, Len(set))
        ELSE set

\* BTreeSet::first
first(set) == IF set = <<>> THEN None ELSE Some(set[1])

\* ------------------------------------------------------- order_book.rs
\* OrderBook::top_bid_ask
price_of(order) == IF order = None THEN None ELSE Some(order[1].price)
top_bid_ask == <<price_of(first(bids)), price_of(first(asks))>>

\* order_book_process, lines 58-71: one order applied to the book
apply_bids(order) ==
    IF order.side # "Bid" THEN bids
    ELSE IF order.details.quantity = 0 THEN remove(bids, order.details, TRUE)
    ELSE insert(bids, order.details, TRUE)

apply_asks(order) ==
    IF order.side # "Ask" THEN asks
    ELSE IF order.details.quantity = 0 THEN remove(asks, order.details, FALSE)
    ELSE insert(asks, order.details, FALSE)

\* ------------------------------------------------- connection/binance.rs
\* A raw level (String, String): whether both strings parse as f32, and the
\* numbers they parse to.
RawLevel(p, q) == [ok |-> TRUE, price |-> p, quantity |-> q]
Malformed == [ok |-> FALSE, price |-> 0, quantity |-> 0]
RawLevels == {RawLevel(p, q) : p \in Prices, q \in Quantities} \cup {Malformed}
\* the bids, or the asks, of one message: no level or one
LevelSeqs == {<<>>} \cup {<<l>> : l \in RawLevels}

\* Result<T, Error>
Ok(v) == [ok |-> TRUE, val |-> v]
Err(e) == [ok |-> FALSE, val |-> e]

\* Order::Bid(details), Order::Ask(details)
Bid(details) == [side |-> "Bid", details |-> details]
Ask(details) == [side |-> "Ask", details |-> details]

\* impl TryFrom<(String, String)> for OrderDetails
try_from_pair(raw) ==
    IF raw.ok THEN Ok(OrderDetails(raw.price, raw.quantity)) ELSE Err("ParseFloat")

\* to_asks: the first level that fails to parse fails the whole vector
to_asks(raw) ==
    IF \E i \in DOMAIN raw : ~try_from_pair(raw[i]).ok THEN Err("ParseFloat")
    ELSE Ok([i \in DOMAIN raw |-> Ask(try_from_pair(raw[i]).val)])

\* to_bids
to_bids(raw) ==
    IF \E i \in DOMAIN raw : ~try_from_pair(raw[i]).ok THEN Err("ParseFloat")
    ELSE Ok([i \in DOMAIN raw |-> Bid(try_from_pair(raw[i]).val)])

\* impl TryFrom<Snapshot> for Vec<Order>: the asks, then the bids
try_from_snapshot(value) ==
    LET a == to_asks(value.asks)
        b == to_bids(value.bids)
    IN  IF ~a.ok THEN a ELSE IF ~b.ok THEN b ELSE Ok(a.val \o b.val)

\* a conversion of a Delta that yields the asks when the bids fail
try_from_delta_partial(value) ==
    LET a == to_asks(value.a)
        b == to_bids(value.b)
    IN  IF ~a.ok THEN a ELSE IF ~b.ok THEN Ok(a.val) ELSE Ok(a.val \o b.val)

\* impl TryFrom<Delta> for Vec<Order>: the asks, then the bids
try_from_delta(value) ==
    LET a == to_asks(value.a)
        b == to_bids(value.b)
    IN  IF ~a.ok THEN a ELSE IF ~b.ok THEN b ELSE Ok(a.val \o b.val)

\* binance.rs:68-74: pop the front of the buffer while its last_update is
\* not above the snapshot's
RECURSIVE drop_predating(_, _)
drop_predating(buffer, last) ==
    IF buffer # <<>> /\ Head(buffer).last_update <= last
    THEN drop_predating(Tail(buffer), last)
    ELSE buffer

\* the bounds check, had its two tests been joined by && instead of ||
bad_bounds_both(delta, last) ==
    delta.first_update > last + 1 /\ delta.last_update < last + 1

\* binance.rs:78: the update bounds of the front delta are bad
bad_bounds(delta, last) ==
    delta.first_update > last + 1 \/ delta.last_update < last + 1

\* the back of the buffer, for a stream that yields the newest delta first
back(buffer) == buffer[Len(buffer)]

\* the front of the buffer_stream, which the chained stream yields next
front(buffer) == Head(buffer)

\* ------------------------------------------------------------ the exchange
\* What the websocket and the REST endpoint may supply.
DeltaIds == {d \in [first_update : Ids, last_update : Ids] : d.first_update <= d.last_update}
Levels == {[b |-> b, a |-> a] : b \in LevelSeqs, a \in LevelSeqs}
Deltas == {[first_update |-> i.first_update, last_update |-> i.last_update,
            b |-> l.b, a |-> l.a] : i \in DeltaIds, l \in Levels}
Snapshots == {[last_update_id |-> i, bids |-> b, asks |-> a] :
              i \in Ids, b \in LevelSeqs, a \in LevelSeqs}
StreamErrors == {"Stream", "ParseJson", "UnexpectedItem"}

\* While the script lasts the exchange supplies its head and nothing else;
\* after it, anything in the domain.
Offered(ev, domain) ==
    IF script = <<>> THEN domain
    ELSE IF Head(script).ev = ev THEN {Head(script).val} ELSE {}
Unscripted == script = <<>>
Consume == script' = IF script = <<>> THEN script ELSE Tail(script)

NoChunk == [kind |-> "none", first_update |-> 0, last_update |-> 0, arrival |-> 0]

\* the message that is being streamed when these are its orders
Streamed(message_orders, message) == IF message_orders = <<>> THEN NoChunk ELSE message

history == <<arrived, chunk, applied, failed, live_bids, live_asks, dropped>>

\* the raw levels of a message in the order they are converted: the number
\* of levels before the first that does not parse, None when all parse
Unparsed(raw) ==
    IF \A i \in DOMAIN raw : raw[i].ok THEN None
    ELSE Some((CHOOSE i \in DOMAIN raw : ~raw[i].ok /\ \A j \in 1..(i - 1) : raw[j].ok) - 1)

\* ------------------------------------------------------------------- Init
InitBook ==
    /\ pc = "connect" /\ result = "none"
    /\ delta_buffer = <<>> /\ last_updated = None /\ orders = <<>>
    /\ bids = <<>> /\ asks = <<>>
    /\ arrived = 0 /\ chunk = NoChunk /\ applied = 0 /\ failed = "no"
    /\ live_bids = {} /\ live_asks = {}
    /\ in_flight = FALSE /\ requests = 0 /\ dropped = 0 /\ malformed = None
    /\ writer = FALSE /\ readers = [r \in Readers |-> "idle"]

Init == InitBook /\ script = <<>>

\* ------------------------------------ BinanceConnection::stream, lines 44-64
\* line 44: the websocket connects; the select loop is entered
StreamOpen ==
    /\ pc = "connect"
    /\ \E ok \in Offered("open", {TRUE}) :
        /\ pc' = "buffering" /\ result' = "pending"
        /\ delta_buffer' = <<>> /\ last_updated' = None
        /\ arrived' = 0 /\ chunk' = NoChunk /\ applied' = 0
        /\ in_flight' = FALSE /\ requests' = 0 /\ dropped' = 0 /\ malformed' = None
    /\ Consume
    /\ UNCHANGED <<orders, bids, asks, failed, live_bids, live_asks>>
    /\ UNCHANGED locks

\* line 44: the websocket fails to connect; order_book_process loops (line 52)
StreamOpenFail ==
    /\ pc = "connect" /\ Unscripted
    /\ result' = "Stream" /\ malformed' = None
    /\ UNCHANGED <<pc, delta_buffer, last_updated, orders, bids, asks,
                   script, history, in_flight, requests>>
    /\ UNCHANGED locks

\* order_book_process, had it taken every result of connection.stream() for a stream
on_stream_result_any(r) == "streaming"

\* order_book.rs:52-53: an Ok result is streamed; on any other the loop calls
\* connection.stream() again
on_stream_result(r) == IF r = "Ok" THEN "streaming" ELSE "connect"

\* the select loop, had it been entered without the ? of line 44
delta_stream_unchecked == pc \in {"connect", "buffering"}

\* line 44: past the ? the delta stream is open
delta_stream_open == pc = "buffering"

\* lines 48, 60 and 197-198: select! evaluates snapshot(&snapshot_url), a new
\* future, and polls it: a request is sent
SnapshotRequest ==
    /\ delta_stream_open /\ ~in_flight
    /\ in_flight' = TRUE /\ requests' = requests + 1
    /\ UNCHANGED <<pc, result, delta_buffer, last_updated, orders, bids, asks,
                   script, history, malformed>>
    /\ UNCHANGED locks

\* lines 49-51: a delta arrives before the snapshot; select! drops the
\* snapshot future, polled or not, and the loop goes round
BufferDelta ==
    /\ pc = "buffering" /\ arrived < MaxDeltas
    /\ \E d \in Offered("delta", DeltaIds) :
        /\ delta_buffer' = Append(delta_buffer,
               [first_update |-> d.first_update, last_update |-> d.last_update,
                arrival |-> arrived + 1])
        /\ arrived' = arrived + 1
    /\ in_flight' = FALSE
    /\ Consume
    /\ UNCHANGED <<pc, result, last_updated, orders, bids, asks,
                   chunk, applied, failed, live_bids, live_asks, requests,
                   dropped, malformed>>
    /\ UNCHANGED locks

\* lines 52-54: the websocket yields an error before the snapshot
BufferStreamError ==
    /\ pc = "buffering" /\ Unscripted
    /\ \E e \in StreamErrors : result' = e
    /\ pc' = on_stream_result(result') /\ delta_buffer' = <<>>
    /\ in_flight' = FALSE /\ requests' = 0
    /\ UNCHANGED <<last_updated, orders, bids, asks, script, history, malformed>>
    /\ UNCHANGED locks

\* lines 55-57: the websocket ends before the snapshot
BufferStreamEnd ==
    /\ pc = "buffering" /\ Unscripted
    /\ result' = "Stream"
    /\ pc' = on_stream_result(result') /\ delta_buffer' = <<>>
    /\ in_flight' = FALSE /\ requests' = 0
    /\ UNCHANGED <<last_updated, orders, bids, asks, script, history, malformed>>
    /\ UNCHANGED locks

\* lines 60-62: the snapshot request fails
SnapshotError ==
    /\ pc = "buffering" /\ in_flight /\ Unscripted
    /\ result' = "Rest"
    /\ pc' = on_stream_result(result') /\ delta_buffer' = <<>>
    /\ in_flight' = FALSE /\ requests' = 0
    /\ UNCHANGED <<last_updated, orders, bids, asks, script, history, malformed>>
    /\ UNCHANGED locks

\* lines 60-114: the snapshot arrives; the buffer is reconciled with it and
\* the order stream is built, or the call fails
SnapshotOk ==
    /\ pc = "buffering" /\ in_flight
    /\ \E snapshot \in Offered("snapshot", Snapshots) :
        LET last == snapshot.last_update_id
            kept == drop_predating(delta_buffer, last)
            snapshot_orders == try_from_snapshot(snapshot)
        IN  /\ last_updated' = Some(last)
            /\ malformed' = Unparsed(snapshot.asks \o snapshot.bids)
            /\ dropped' = Len(delta_buffer) - Len(kept)
            /\ IF kept # <<>> /\ bad_bounds(Head(kept), last)
               THEN /\ result' = "UnexpectedItem" /\ pc' = "connect"
                    /\ delta_buffer' = <<>>
                    /\ UNCHANGED <<orders, chunk>>
               ELSE IF ~snapshot_orders.ok
               THEN /\ result' = snapshot_orders.val /\ pc' = "connect"
                    /\ delta_buffer' = <<>>
                    /\ UNCHANGED <<orders, chunk>>
               ELSE /\ result' = "Ok" /\ pc' = "streaming"
                    /\ delta_buffer' = kept
                    /\ orders' = snapshot_orders.val
                    /\ chunk' = Streamed(snapshot_orders.val,
                                 [kind |-> "snapshot", first_update |-> last,
                                  last_update |-> last, arrival |-> 0])
    /\ in_flight' = FALSE /\ requests' = 0
    /\ Consume
    /\ UNCHANGED <<bids, asks, arrived, applied, failed, live_bids, live_asks>>
    /\ UNCHANGED locks

\* ------------------------------------------- order_book_process, lines 54-85
\* lines 56-73: the stream yields an order; it is applied under the write lock
ProcessOrder ==
    /\ pc = "streaming" /\ orders # <<>>
    /\ LET order == Head(orders)
           p == order.details.price
           q == order.details.quantity
       IN  /\ bids' = apply_bids(order)
           /\ asks' = apply_asks(order)
           /\ live_bids' = IF order.side # "Bid" THEN live_bids
                           ELSE IF q # 0 THEN live_bids \cup {p} ELSE live_bids \ {p}
           /\ live_asks' = IF order.side # "Ask" THEN live_asks
                           ELSE IF q # 0 THEN live_asks \cup {p} ELSE live_asks \ {p}
    /\ orders' = Tail(orders)
    /\ applied' = IF Tail(orders) = <<>> THEN 0 ELSE applied + 1
    /\ chunk' = IF Tail(orders) = <<>> THEN NoChunk ELSE chunk
    /\ failed' = IF chunk.kind = "snapshot" THEN "no" ELSE failed
    /\ UNCHANGED <<pc, result, delta_buffer, last_updated, script, arrived,
                   in_flight, requests, dropped, malformed>>
    /\ UNCHANGED locks

\* binance.rs:93-112 and order_book.rs:54-85: the next buffered delta is
\* converted; its orders are streamed, or the error item clears the book
NextBuffered ==
    /\ pc = "streaming" /\ orders = <<>> /\ delta_buffer # <<>>
    /\ \E levels \in Offered("levels", Levels) :
        LET delta == front(delta_buffer)
            r == try_from_delta(levels)
        IN  /\ delta_buffer' = Tail(delta_buffer)
            /\ applied' = 0
            /\ malformed' = Unparsed(levels.a \o levels.b)
            /\ IF r.ok
               THEN /\ orders' = r.val
                    /\ chunk' = Streamed(r.val,
                           [kind |-> "buffered", first_update |-> delta.first_update,
                            last_update |-> delta.last_update, arrival |-> delta.arrival])
                    /\ UNCHANGED <<bids, asks, failed, live_bids, live_asks>>
               ELSE /\ orders' = <<>> /\ chunk' = NoChunk
                    /\ bids' = <<>> /\ asks' = <<>>
                    /\ live_bids' = {} /\ live_asks' = {}
                    /\ failed' = "error"
    /\ Consume
    /\ UNCHANGED <<pc, result, last_updated, arrived, in_flight, requests, dropped>>
    /\ UNCHANGED locks

\* binance.rs:95-112, 204-206 and order_book.rs:54-85: the websocket yields a
\* delta; its orders are streamed, or the error item clears the book
LiveDelta ==
    /\ pc = "streaming" /\ orders = <<>> /\ delta_buffer = <<>>
    /\ arrived < MaxDeltas
    /\ \E delta \in Offered("live", Deltas) :
        LET r == try_from_delta(delta)
        IN  /\ arrived' = arrived + 1
            /\ applied' = 0
            /\ malformed' = Unparsed(delta.a \o delta.b)
            /\ IF r.ok
               THEN /\ orders' = r.val
                    /\ chunk' = Streamed(r.val,
                           [kind |-> "live", first_update |-> delta.first_update,
                            last_update |-> delta.last_update, arrival |-> arrived + 1])
                    /\ UNCHANGED <<bids, asks, failed, live_bids, live_asks>>
               ELSE /\ orders' = <<>> /\ chunk' = NoChunk
                    /\ bids' = <<>> /\ asks' = <<>>
                    /\ live_bids' = {} /\ live_asks' = {}
                    /\ failed' = "error"
    /\ Consume
    /\ UNCHANGED <<pc, result, delta_buffer, last_updated, in_flight, requests,
                   dropped>>
    /\ UNCHANGED locks

\* binance.rs:204-210 and order_book.rs:74-83: the websocket yields an error,
\* a message that is no text or no delta; the error is printed, the book is
\* cleared and the loop goes on reading the same stream
LiveError ==
    /\ pc = "streaming" /\ orders = <<>> /\ delta_buffer = <<>>
    /\ \E e \in Offered("error", StreamErrors) :
        /\ bids' = <<>> /\ asks' = <<>>
        /\ live_bids' = {} /\ live_asks' = {}
        /\ failed' = "error" /\ malformed' = None
    /\ Consume
    /\ UNCHANGED <<pc, result, delta_buffer, last_updated, orders,
                   arrived, chunk, applied, in_flight, requests, dropped>>
    /\ UNCHANGED locks

\* order_book.rs:54, 85-87: the stream ends; the while loop is left and the
\* outer loop connects again
LiveEnd ==
    /\ pc = "streaming" /\ orders = <<>> /\ delta_buffer = <<>> /\ Unscripted
    /\ pc' = "connect"
    /\ failed' = "ended" /\ malformed' = None
    /\ UNCHANGED <<result, delta_buffer, last_updated, orders, bids, asks,
                   script, arrived, chunk, applied, live_bids, live_asks,
                   in_flight, requests, dropped>>
    /\ UNCHANGED locks

\* main.rs:13 and OrderBook::top_bid_ask: a reader takes the read lock and
\* reads the first of each side; it returns top_bid_ask and changes nothing
Query == UNCHANGED vars

Next ==
    \/ StreamOpen \/ StreamOpenFail
    \/ SnapshotRequest
    \/ BufferDelta \/ BufferStreamError \/ BufferStreamEnd
    \/ SnapshotError \/ SnapshotOk
    \/ ProcessOrder \/ NextBuffered \/ LiveDelta \/ LiveError \/ LiveEnd
    \/ Query

Spec == Init /\ [][Next]_vars

\* ------------------------------------- the same process, lock by lock
\* order_book_process and top_bid_ask at the grain of the operations of the
\* RwLock.  The stream is taken as what order_book_process sees of it: an
\* order, an error item, or its end.  pc is "connect" at line 53,
\* "streaming" at line 54, "write_order" at line 57, "apply" at lines 58-71,
\* "drop_order" at line 73, "write_clear" at line 80, "clear" at lines
\* 81-82, "drop_clear" at line 83.
Orders == {Bid(OrderDetails(p, q)) : p \in Prices, q \in Quantities}
              \cup {Ask(OrderDetails(p, q)) : p \in Prices, q \in Quantities}

\* what the lock steps leave alone
reconciliation == <<result, delta_buffer, last_updated, script, history,
                    in_flight, requests, malformed>>

\* a write guard that outlives the arm that took it
keep_guard(held) == held

\* the write guard goes out of scope at the end of its match arm
drop_guard(held) == FALSE

\* tokio RwLock::write: granted when no guard is held
write_granted == ~writer /\ \A r \in Readers : readers[r] = "idle"

\* tokio RwLock::read: granted when no write guard is held
read_granted == ~writer

\* line 53: connection.stream() returns a stream, or an error and the loop
\* calls it again
Connect ==
    /\ pc = "connect"
    /\ pc' \in {"connect", "streaming"}
    /\ UNCHANGED <<orders, bids, asks, locks, reconciliation>>

\* line 54: stream.next() yields an order
NextOrder ==
    /\ pc = "streaming"
    /\ \E order \in Orders : orders' = <<order>>
    /\ pc' = "write_order"
    /\ UNCHANGED <<bids, asks, locks, reconciliation>>

\* lines 54, 74-76: stream.next() yields an error item
NextError ==
    /\ pc = "streaming"
    /\ pc' = "write_clear"
    /\ UNCHANGED <<orders, bids, asks, locks, reconciliation>>

\* line 54: the stream ends
NextNone ==
    /\ pc = "streaming"
    /\ pc' = "connect"
    /\ UNCHANGED <<orders, bids, asks, locks, reconciliation>>

\* line 57: book.write().await
WriteOrder ==
    /\ pc = "write_order" /\ write_granted
    /\ writer' = TRUE /\ pc' = "apply"
    /\ UNCHANGED <<orders, bids, asks, readers, reconciliation>>

\* lines 58-71: the order is applied through the guard
ApplyOrder ==
    /\ pc = "apply"
    /\ bids' = apply_bids(Head(orders))
    /\ asks' = apply_asks(Head(orders))
    /\ pc' = "drop_order"
    /\ UNCHANGED <<orders, locks, reconciliation>>

\* line 73: the arm ends
DropOrder ==
    /\ pc = "drop_order"
    /\ writer' = drop_guard(writer)
    /\ orders' = <<>> /\ pc' = "streaming"
    /\ UNCHANGED <<bids, asks, readers, reconciliation>>

\* line 80: book.write().await in the Err arm
WriteClear ==
    /\ pc = "write_clear" /\ write_granted
    /\ writer' = TRUE /\ pc' = "clear"
    /\ UNCHANGED <<orders, bids, asks, readers, reconciliation>>

\* lines 81-82: both sides are cleared through the guard
ClearBook ==
    /\ pc = "clear"
    /\ bids' = <<>> /\ asks' = <<>>
    /\ pc' = "drop_clear"
    /\ UNCHANGED <<orders, locks, reconciliation>>

\* line 83: the arm ends
DropClear ==
    /\ pc = "drop_clear"
    /\ writer' = drop_guard(writer)
    /\ pc' = "streaming"
    /\ UNCHANGED <<orders, bids, asks, readers, reconciliation>>

\* top_bid_ask, line 42: self.book.read().await
ReadLock ==
    /\ \E r \in Readers :
        /\ readers[r] = "idle" /\ read_granted
        /\ readers' = [readers EXCEPT ![r] = "holding"]
    /\ UNCHANGED <<pc, orders, bids, asks, writer, reconciliation>>

\* top_bid_ask, lines 43-47: the firsts are read and the guard is dropped
ReadTop ==
    /\ \E r \in Readers :
        /\ readers[r] = "holding"
        /\ readers' = [readers EXCEPT ![r] = "idle"]
    /\ UNCHANGED <<pc, orders, bids, asks, writer, reconciliation>>

NextLock ==
    \/ Connect \/ NextOrder \/ NextError \/ NextNone
    \/ WriteOrder \/ ApplyOrder \/ DropOrder
    \/ WriteClear \/ ClearBook \/ DropClear
    \/ ReadLock \/ ReadTop

SpecLock == Init /\ [][NextLock]_vars

\* The steps order_book_process takes by itself are taken when they stay
\* possible: the call of connection.stream() (order_book.rs:53), the poll of
\* the snapshot future (binance.rs:60) and the next order of a message that
\* is in memory (order_book.rs:54).  What the exchange sends, and whether it
\* ever closes the websocket, is left open.
SpecFair ==
    /\ Spec
    /\ WF_vars(StreamOpen \/ StreamOpenFail)
    /\ WF_vars(SnapshotRequest)
    /\ WF_vars(ProcessOrder)
    /\ WF_vars(NextBuffered)

\* ------------------------------------------------------ scripted sessions
Event(ev, val) == [ev |-> ev, val |-> val]

\* The end-to-end scenario: a delta 98..101 is buffered, the snapshot 100
\* arrives, then the live delta 102; the stream then fails.
EndToEnd == <<
    Event("open", TRUE),
    Event("delta", [first_update |-> 98, last_update |-> 101]),
    Event("snapshot", [last_update_id |-> 100,
                       bids |-> <<RawLevel(100, 5)>>, asks |-> <<RawLevel(110, 3)>>]),
    Event("levels", [b |-> <<RawLevel(100, 0)>>, a |-> <<>>]),
    Event("live", [first_update |-> 102, last_update |-> 102,
                   b |-> <<RawLevel(95, 2)>>, a |-> <<RawLevel(110, 0)>>]),
    Event("error", "Stream") >>

InitE2E == InitBook /\ script = EndToEnd
SpecE2E == InitE2E /\ [][Next]_vars

\* A snapshot bid of 5 at 10.0, then a live delta with a bid of 3 at 10.0;
\* the stream then fails.
RepeatedUpsert == <<
    Event("open", TRUE),
    Event("snapshot", [last_update_id |-> 100,
                       bids |-> <<RawLevel(100, 5)>>, asks |-> <<>>]),
    Event("live", [first_update |-> 101, last_update |-> 101,
                   b |-> <<RawLevel(100, 3)>>, a |-> <<>>]),
    Event("error", "Stream") >>

InitUpsert == InitBook /\ script = RepeatedUpsert
SpecUpsert == InitUpsert /\ [][Next]_vars

\* A snapshot with a bid of quantity -1 at 10.0 and an ask of 3 at 11.0, then
\* a live delta with quantity 0 at 10.5 (ask) and 9.5 (bid), prices the book
\* does not hold; the stream then fails.
SignedLevels == <<
    Event("open", TRUE),
    Event("snapshot", [last_update_id |-> 100,
                       bids |-> <<RawLevel(100, -1)>>, asks |-> <<RawLevel(110, 3)>>]),
    Event("live", [first_update |-> 101, last_update |-> 101,
                   b |-> <<RawLevel(95, 0)>>, a |-> <<RawLevel(105, 0)>>]),
    Event("error", "Stream") >>

InitSigned == InitBook /\ script = SignedLevels
SpecSigned == InitSigned /\ [][Next]_vars

\* ------------------------------------------------------------- properties
Max(S) == CHOOSE x \in S : \A y \in S : y <= x
Min(S) == CHOOSE x \in S : \A y \in S : x <= y

\* a step of ProcessOrder: the head of orders is applied
Applies == pc = "streaming" /\ orders # <<>> /\ orders' = Tail(orders)

\* the entries of one side of the book at a price
At(side, p) == SelectSeq(side, LAMBDA d : d.price = p)

\* C1: when an order with a positive quantity is applied at a price that
\* side already holds, the side then holds exactly one entry at that price
\* and its quantity is the quantity of the order.
C1_RepeatedUpsertReplaces ==
    [][ (Applies /\ Head(orders).details.quantity > 0) =>
        LET order == Head(orders)
            p == order.details.price
        IN  /\ (order.side = "Bid" /\ At(bids, p) # <<>>) =>
                   At(bids', p) = <<order.details>>
            /\ (order.side = "Ask" /\ At(asks, p) # <<>>) =>
                   At(asks', p) = <<order.details>> ]_vars

\* C2: from a stream error or end until a snapshot level is applied, a
\* query returns (None, None).
C2_NoValueWhileResyncing == failed # "no" => top_bid_ask = <<None, None>>

\* C3: no state a reader can see has only some of the levels of one
\* snapshot or delta applied.
C3_NoTornBook == ~(pc = "streaming" /\ orders # <<>> /\ applied > 0)

\* the buffered deltas a snapshot with this last_update_id does not subsume
Unsubsumed(buffer, last) == SelectSeq(buffer, LAMBDA d : d.last_update > last)

\* the oldest of them does not span last + 1
Gapped(buffer, last) ==
    /\ Unsubsumed(buffer, last) # <<>>
    /\ LET d == Head(Unsubsumed(buffer, last))
       IN  ~(d.first_update <= last + 1 /\ last + 1 <= d.last_update)

\* C4: when the snapshot arrives and the oldest buffered delta it does not
\* subsume fails first_update <= L+1 <= last_update, the call fails with an
\* error, the book is untouched and nothing of the session is left to stream.
C4_GapFailsSession ==
    [][ (pc = "buffering" /\ last_updated' # None
            /\ Gapped(delta_buffer, last_updated'[1])) =>
        (/\ pc' = "connect" /\ result' = "UnexpectedItem"
         /\ bids' = bids /\ asks' = asks
         /\ orders' = <<>> /\ delta_buffer' = <<>>) ]_vars

\* a call has failed on the bounds of its front delta
C4_GapSeen == pc = "connect" /\ result = "UnexpectedItem" /\ last_updated # None

\* C5: no order applied to the book comes from a buffered delta whose
\* last_update is not above the snapshot's last_update_id.
C5_NoSubsumedDeltaApplied ==
    [][ Applies =>
        ~(chunk.kind = "buffered" /\ chunk.last_update <= last_updated[1]) ]_vars

\* C6: in the end-to-end scenario the reconciliation succeeds, the book
\* holds no bid and the ask 11.0 once the buffered delta is replayed, and
\* top_bid_ask is (Some(9.5), None) once the live delta is applied.
C6_EndToEnd ==
    /\ Len(script) = 3 => (pc = "streaming" /\ result = "Ok" /\ Len(delta_buffer) = 1)
    /\ (Len(script) = 2 /\ orders = <<>>) =>
           (bids = <<>> /\ asks = <<OrderDetails(110, 3)>>)
    /\ (Len(script) = 1 /\ orders = <<>>) => top_bid_ask = <<Some(95), None>>

\* the scenario has run up to the live delta, which is applied
C6_LiveDeltaApplied ==
    Len(script) = 1 /\ pc = "streaming" /\ orders = <<>> /\ arrived = 2

C8_ArrivalOrder ==
    /\ [](pc = "streaming" =>
            /\ \A i \in DOMAIN delta_buffer :
                   delta_buffer[i].arrival = arrived - Len(delta_buffer) + i
            /\ chunk.kind \in {"buffered", "live"} =>
                   chunk.arrival = arrived - Len(delta_buffer)
            /\ chunk.kind = "live" => delta_buffer = <<>>)
    /\ [][ (pc = "streaming" /\ pc' = "streaming" /\ chunk' # NoChunk /\ chunk' # chunk) =>
           (/\ orders = <<>>
            /\ chunk'.kind \in {"buffered", "live"}
            /\ chunk'.arrival = arrived - Len(delta_buffer) + 1) ]_vars

\* a live delta, the second delta of its session, is being applied
C8_SecondDeltaStreamed ==
    pc = "streaming" /\ chunk.kind = "live" /\ chunk.arrival = 2 /\ orders # <<>>

\* C9: once the stream has yielded an error item, nothing more of that
\* session changes the book.
C9_FailedSessionAppliesNothing ==
    [][ failed = "error" => (bids' = bids /\ asks' = asks) ]_vars

\* C10: when a session starts loading its snapshot both sides are empty.
C10_SnapshotLoadsIntoEmptyBook ==
    (pc = "streaming" /\ chunk.kind = "snapshot" /\ applied = 0) =>
        (bids = <<>> /\ asks = <<>>)

\* C11: a snapshot request is issued only when the delta stream of the
\* session is open; a call whose stream fails to open issues no request,
\* returns an error and leaves the book as it is.
C11_StreamOpenBeforeSnapshot ==
    /\ []((in_flight \/ requests > 0) => (pc = "buffering" /\ result = "pending"))
    /\ [][ /\ requests' > requests => (pc = "buffering" /\ result = "pending")
          /\ (pc = "connect" /\ pc' = "connect") =>
                 (/\ result' = "Stream" /\ requests' = 0 /\ ~in_flight'
                  /\ bids' = bids /\ asks' = asks /\ orders' = <<>>) ]_vars

\* a request is in flight on an open stream
C11_RequestInFlight == pc = "buffering" /\ in_flight /\ requests = 1

\* C18: the select loop of one reconciliation issues at most one snapshot
\* request, whatever deltas arrive before the response.
C18_OneSnapshotRequest == requests <= 1

\* C12: when the select loop is left without a snapshot (the delta stream
\* yielded an error or ended, or the snapshot request failed), the call
\* returns an error, the book is untouched and no order and no buffered
\* delta of the session is left to stream.
C12_BufferingFailureAborts ==
    [][ (pc = "buffering" /\ pc' # "buffering" /\ last_updated' = None) =>
        (/\ pc' = "connect" /\ result' \in StreamErrors \cup {"Rest"}
         /\ bids' = bids /\ asks' = asks
         /\ orders' = <<>> /\ delta_buffer' = <<>>) ]_vars

\* the snapshot request of a session that had buffered a delta has failed
C12_SnapshotFailedAfterDelta ==
    pc = "connect" /\ result = "Rest" /\ last_updated = None /\ arrived > 0

\* C13: each side of the book holds at most one entry per price and no
\* entry with a quantity that is zero or negative, for a feed that may carry
\* a negative quantity.
C13_LedgerInvariant ==
    \A side \in {bids, asks} :
        /\ \A i \in DOMAIN side : side[i].quantity > 0
        /\ \A i, j \in DOMAIN side : i # j => side[i].price # side[j].price

C14_MalformedFailsWholeMessage ==
    /\ [](malformed # None =>
            /\ orders = <<>> /\ chunk = NoChunk
            /\ \/ pc = "connect" /\ result \in {"ParseFloat", "UnexpectedItem"}
               \/ pc = "streaming" /\ failed = "error" /\ bids = <<>> /\ asks = <<>>)
    /\ [][ malformed' # None =>
           (/\ bids' = bids \/ bids' = <<>>
            /\ asks' = asks \/ asks' = <<>>) ]_vars

\* a delta whose ask parses and whose bid does not has been received
C14_AskThenMalformedBid == malformed = Some(1) /\ pc = "streaming" /\ failed = "error"

\* C17: when the first delta the order stream yields after the snapshot is
\* applied, buffered or live, its update ids span the snapshot's
\* last_update_id + 1.
C17_FirstDeltaInBounds ==
    [][ (/\ Applies /\ chunk.kind \in {"buffered", "live"}
         /\ chunk.arrival = dropped + 1) =>
        (/\ chunk.first_update <= last_updated[1] + 1
         /\ last_updated[1] + 1 <= chunk.last_update) ]_vars

\* C15: after the stream of a session has yielded an error item, the
\* process is eventually back at the call of connection.stream() that starts
\* a new session.
C15_ErrorItemRestartsSession ==
    (pc = "streaming" /\ failed = "error") ~> (pc = "connect")

\* C19: the book changes only in a step of the update task that holds the
\* write guard while no reader holds a read guard; no reader holds a read
\* guard while the write guard is held; the update task does not ask for
\* the write guard while it holds it; a step of a reader leaves the book as
\* it is.
C19_LockDiscipline ==
    /\ []((\E r \in Readers : readers[r] = "holding") => ~writer)
    /\ [](pc \in {"write_order", "write_clear"} => ~writer)
    /\ [][ /\ (bids' # bids \/ asks' # asks) =>
               (/\ writer /\ pc \in {"apply", "clear"}
                /\ \A r \in Readers : readers[r] = "idle")
          /\ readers' # readers => (bids' = bids /\ asks' = asks) ]_vars

\* the update task waits for the write guard while both readers hold a
\* read guard on a book with a bid and an ask
C19_WriterWaitsForReaders ==
    /\ pc = "write_order" /\ \A r \in Readers : readers[r] = "holding"
    /\ bids # <<>> /\ asks # <<>>

====
